---------------------------- MODULE Spec2Model ----------------------------
(***************************************************************************)
(* Inventory reservation and payment settlement core of the checkout       *)
(* backend: create_order, cancel_order (app/api/v1/orders.py),             *)
(* create_payment_order, verify_payment, razorpay_webhook                  *)
(* (app/api/v1/payments.py), create_cod_payment                            *)
(* (app/services/payment_service.py) and auto_cancel_pending_orders        *)
(* (app/services/order_service.py).                                        *)
(*                                                                         *)
(* Every request runs in its own SQLAlchemy session (app/db/session.py,    *)
(* autoflush off) against a READ COMMITTED database:                       *)
(*   - a SELECT reads the committed rows at the moment it runs; the        *)
(*     session keeps what it loaded (identity map);                        *)
(*   - SELECT ... FOR UPDATE waits until no other transaction holds the    *)
(*     row, then reads the committed row and holds the lock to the end of  *)
(*     the transaction;                                                    *)
(*   - commit flushes one UPDATE per changed row that sets only the        *)
(*     columns whose value differs from the loaded one, to the value the   *)
(*     handler computed (an absolute value, never an increment), and       *)
(*     waits for row locks other transactions hold.                        *)
(* A handler is therefore a sequence of steps (its statements that read,   *)
(* lock or commit); steps of different sessions interleave.                *)
(***************************************************************************)
EXTENDS Integers, Sequences, FiniteSets, TLC

(***************************************************************************)
(* Bounds of the model.                                                    *)
(***************************************************************************)
MaxCalls == 2          \* requests issued in one behaviour (one session each)
MaxStock == 2          \* largest initial stock of a variant
MaxNow == 2            \* clock ticks (one tick = the reservation window)

Users == {1, 2}
Variants == {1, 2}
Sessions == 1..MaxCalls
IdempotencyKeys == {"k1", "k2"}
PaymentIds == {"pay_1"}

(***************************************************************************)
(* Program constants.                                                      *)
(***************************************************************************)
ReservationWindow == 1     \* timedelta(minutes=30), in ticks
FallbackCutoff == 1        \* timedelta(minutes=30) of the sweep, in ticks

OrderStatus ==
    {"pending", "confirmed", "processing", "shipped", "delivered",
     "cancelled", "refunded"}
PaymentStatus == {"pending", "success", "failed", "refunded"}

NoTime == -1               \* expires_at IS NULL
NoRef == 0                 \* razorpay_order_id IS NULL
NoPaymentId == "none"      \* razorpay_payment_id IS NULL
NoPayment == [method |-> "none", payment_status |-> "none",
              razorpay_order_id |-> NoRef, razorpay_payment_id |-> NoPaymentId]
NoOrder == [order_number |-> << >>, user_id |-> 0,
            idempotency_key |-> "none", status |-> "none",
            stock_deducted |-> FALSE, expires_at |-> NoTime, created_at |-> 0,
            items |-> << >>]

KEY_SECRET == "razorpay_key_secret"
WEBHOOK_SECRET == "razorpay_webhook_secret"
ATTACKER_SECRET == "not_the_secret"

VARIABLES
    stock,      \* product_variants.stock_quantity, by variant id
    orders,     \* the orders table: a sequence, the order id is the index
    payments,   \* the payments table, by order id (payments.order_id is unique)
    cart,       \* cart_items, by user: a sequence of rows
    now,        \* the clock (datetime.utcnow())
    nextRef,    \* the next order reference the gateway hands out
    vlock,      \* row locks on product_variants: variant id -> session, 0 = free
    plock,      \* row locks on payments: order id -> session, 0 = free
    sess,       \* the sessions: request, position in the handler, loaded rows
    started,    \* number of requests issued so far
    stock0,     \* history: the stock the behaviour started with
    orders0,    \* history: the orders the behaviour started with
    cart0       \* history: the carts the behaviour started with

vars ==
    <<stock, orders, payments, cart, now, nextRef, vlock, plock, sess, started,
      stock0, orders0, cart0>>
history == <<stock0, orders0, cart0>>
db == <<stock, orders, payments, cart>>

(***************************************************************************)
(* Pure helpers.                                                           *)
(***************************************************************************)
RECURSIVE SumQty(_, _)
\* the summed quantity of the rows of `rows` that are for variant v
SumQty(rows, v) ==
    IF rows = << >> THEN 0
    ELSE (IF Head(rows).variant_id = v THEN Head(rows).quantity ELSE 0)
         + SumQty(Tail(rows), v)

VariantsOf(rows) == {rows[i].variant_id : i \in DOMAIN rows}

RECURSIVE SortedSeq(_)
\* sorted(ids): the ids in ascending order
SortedSeq(S) ==
    IF S = {} THEN << >>
    ELSE LET m == CHOOSE x \in S : \A y \in S : x <= y
         IN <<m>> \o SortedSeq(S \ {m})

\* hmac.new(secret, message, sha256).hexdigest(): a digest determined by the
\* secret and the message, and different for a different secret or message
Hmac(secret, message) == <<"sha256", secret, message>>

\* generate_order_number (orders.py): "AMZ", the date and a random part,
\* drawn again while an order holds the number: a number no other order holds
OrderNumber(id) == <<"AMZ", id>>

NoResponse == [code |-> 0, tag |-> "none", order_id |-> 0, order_number |-> << >>]
Response(code, tag, id, number) ==
    [code |-> code, tag |-> tag, order_id |-> id, order_number |-> number]

\* the identity map of a session that has loaded no variant row
EmptySnap == [v \in {} |-> 0]

Idle ==
    [op |-> "idle", pc |-> "idle", user |-> 0, key |-> "none", method |-> "none",
     oid |-> 0, ref |-> NoRef, pid |-> NoPaymentId, event |-> "none",
     newstatus |-> "none",
     sig |-> << >>, ord |-> NoOrder, pay |-> NoPayment,
     pending |-> << >>, idx |-> 0, marks |-> {}, cancelled |-> 0,
     vsnap |-> EmptySnap,
     tolock |-> << >>, cartsnap |-> << >>,
     notify |-> "none", inserted |-> 0,
     resp |-> NoResponse]

\* the session ends: its transaction is over, what it loaded is dropped, the
\* request and its response stay as the record of the call
Finish(s, code, tag, id, number) ==
    [Idle EXCEPT !.op = sess[s].op, !.pc = "done", !.user = sess[s].user,
                 !.key = sess[s].key, !.method = sess[s].method,
                 !.oid = sess[s].oid, !.ref = sess[s].ref, !.pid = sess[s].pid,
                 !.event = sess[s].event, !.sig = sess[s].sig,
                 !.newstatus = sess[s].newstatus,
                 !.cancelled = sess[s].cancelled,
                 !.resp = Response(code, tag, id, number)]

\* send_order_confirmation.delay after the commit: the broker takes the task
\* or the call raises
EnqueueOutcomes == {"queued", "failed"}

\* the exception of a failed enqueue reaches the route
EnqueueFailureRaised(call, outcome) ==
    IF outcome = "failed"
    THEN [call EXCEPT !.notify = outcome,
                      !.resp = Response(500, "queue_failed", 0, << >>)]
    ELSE [call EXCEPT !.notify = outcome]

\* payments.py 289-295 and 398-404, payment_service.py 283-290: the call is
\* wrapped in try/except that only logs
SendOrderConfirmation(call, outcome) == [call EXCEPT !.notify = outcome]

\* commit or rollback releases every row lock of the session
ReleaseV(s) == [v \in Variants |-> IF vlock[v] = s THEN 0 ELSE vlock[v]]
ReleaseP(s) == [i \in DOMAIN plock |-> IF plock[i] = s THEN 0 ELSE plock[i]]

\* the UPDATE the unit of work flushes for a loaded row: only the columns
\* whose value differs from the loaded one are written
FlushOrder(committed, loaded, new) ==
    [f \in DOMAIN committed |->
        IF new[f] /= loaded[f] THEN new[f] ELSE committed[f]]
FlushPayment(committed, loaded, new) ==
    [f \in DOMAIN committed |->
        IF new[f] /= loaded[f] THEN new[f] ELSE committed[f]]

\* the request is issued by the next unused session
NewSession(s) == s = started + 1 /\ s \in Sessions /\ sess[s].pc = "idle"

(***************************************************************************)
(* create_order (app/api/v1/orders.py).                                    *)
(***************************************************************************)
\* no lookup of an earlier order
ExistingOrderNotLookedUp(u, key) == {}

\* lines 88-108: the (user_id, idempotency_key) lookup; an existing order is
\* returned as it is (200, "Order already exists")
ExistingOrder(u, key) ==
    {i \in DOMAIN orders :
        orders[i].user_id = u /\ orders[i].idempotency_key = key}

CreateOrderStart(s, u, key, method) ==
    /\ NewSession(s)
    /\ started' = s
    /\ LET call == [Idle EXCEPT !.op = "create_order", !.user = u, !.key = key,
                                !.method = method]
       IN IF ExistingOrder(u, key) /= {}
          THEN LET i == CHOOSE i \in ExistingOrder(u, key) :
                            \A j \in ExistingOrder(u, key) : i <= j
               IN sess' = [sess EXCEPT ![s] =
                       [call EXCEPT !.pc = "done", !.oid = i,
                            !.resp = Response(200, "exists", i,
                                              orders[i].order_number)]]
          ELSE sess' = [sess EXCEPT ![s] = [call EXCEPT !.pc = "co_cart"]]
    /\ UNCHANGED <<db, now, nextRef, vlock, plock, history>>

\* lines 110-141: the cart is read; an empty cart is refused; the rows are
\* collapsed into per-variant requested quantities
CreateOrderCart(s) ==
    /\ sess[s].pc = "co_cart"
    /\ LET rows == cart[sess[s].user]
       IN IF rows = << >>
          THEN sess' = [sess EXCEPT ![s] = Finish(s, 400, "cart_empty", 0, << >>)]
          ELSE sess' = [sess EXCEPT ![s].pc = "co_lock",
                                    ![s].cartsnap = rows,
                                    ![s].tolock = SortedSeq(VariantsOf(rows))]
    /\ UNCHANGED <<db, now, nextRef, vlock, plock, started, history>>

\* the variant is read by a plain SELECT: no wait, no row lock
LockVariantNoForUpdate(s) ==
    /\ sess[s].pc \in {"co_lock", "vp_lock", "wh_lock", "sw_lock"}
    /\ sess[s].tolock /= << >>
    /\ LET v == Head(sess[s].tolock)
       IN sess' = [sess EXCEPT
              ![s].tolock = Tail(sess[s].tolock),
              ![s].vsnap = [x \in DOMAIN sess[s].vsnap \cup {v} |->
                               IF x \in DOMAIN sess[s].vsnap
                               THEN sess[s].vsnap[x] ELSE stock[x]]]
    /\ UNCHANGED <<db, now, nextRef, vlock, plock, started, history>>

\* lines 143-156 (and payments.py 247-256, 359-368, order_service.py 44-53):
\* SELECT ... FOR UPDATE of the next variant: waits while another session
\* holds the row, then loads the committed row unless the session already
\* holds it in its identity map
LockVariant(s) ==
    /\ sess[s].pc \in {"co_lock", "vp_lock", "wh_lock", "sw_lock"}
    /\ sess[s].tolock /= << >>
    /\ LET v == Head(sess[s].tolock)
       IN /\ vlock[v] \in {0, s}
          /\ vlock' = [vlock EXCEPT ![v] = s]
          /\ sess' = [sess EXCEPT
                 ![s].tolock = Tail(sess[s].tolock),
                 ![s].vsnap = [x \in DOMAIN sess[s].vsnap \cup {v} |->
                                  IF x \in DOMAIN sess[s].vsnap
                                  THEN sess[s].vsnap[x] ELSE stock[x]]]
    /\ UNCHANGED <<db, now, nextRef, plock, started, history>>

\* every cart row checked on its own
CreateOrderInsufficientPerRow(rows, vsnap) ==
    \E i \in DOMAIN rows : vsnap[rows[i].variant_id] < rows[i].quantity

\* lines 161-167: every variant must hold the summed requested quantity
CreateOrderInsufficient(rows, vsnap) ==
    \E v \in VariantsOf(rows) : vsnap[v] < SumQty(rows, v)

\* lines 172-192: one order item per cart row
OrderItemsOf(rows) ==
    [i \in DOMAIN rows |->
        [variant_id |-> rows[i].variant_id, quantity |-> rows[i].quantity]]

\* amounts are whole rupees; the prices of the model keep 18% of every
\* subtotal whole
GstRatePercent == 18
FREE_SHIPPING_THRESHOLD == 2000
DEFAULT_SHIPPING_CHARGE == 100

\* lines 175-176: the product's sale or base price plus the variant's
\* additional price
UnitPrice(v) == IF v = 1 THEN 1000 ELSE 1500

\* line 177
TotalPrice(item) == UnitPrice(item.variant_id) * item.quantity

RECURSIVE Subtotal(_)
\* lines 158, 178: the total prices of the rows, summed
Subtotal(rows) ==
    IF rows = << >> THEN 0 ELSE TotalPrice(Head(rows)) + Subtotal(Tail(rows))

\* line 195
ShippingCharge(subtotal) ==
    IF subtotal > FREE_SHIPPING_THRESHOLD THEN 0 ELSE DEFAULT_SHIPPING_CHARGE

\* lines 194-196 and 209-212; discount_amount and coupon_code take the
\* defaults of the columns (app/models/order.py, lines 29-30)
Pricing(rows) ==
    LET subtotal == Subtotal(rows)
        tax == (subtotal * GstRatePercent) \div 100
    IN [subtotal |-> subtotal, tax_amount |-> tax,
        shipping_charge |-> ShippingCharge(subtotal),
        discount_amount |-> 0, coupon_code |-> "none",
        total_amount |-> subtotal + tax + ShippingCharge(subtotal)]

\* no unique index on the key
IdempotencyKeyNotIndexed(key) == FALSE

\* the unique index ix_orders_idempotency_key (alembic d4f2c8b9e7a1, line 44)
IdempotencyKeyTaken(key) ==
    \E i \in DOMAIN orders : orders[i].idempotency_key = key

\* lines 158-236: stock check, deduction, INSERT of the order and its items,
\* DELETE of the user's cart rows, commit; any failure rolls back
CreateOrderCommit(s) ==
    /\ sess[s].pc = "co_lock"
    /\ sess[s].tolock = << >>
    /\ LET rows == sess[s].cartsnap
           u == sess[s].user
           id == Len(orders) + 1
           order == [order_number |-> OrderNumber(id),
                     user_id |-> u, idempotency_key |-> sess[s].key,
                     status |-> "pending", stock_deducted |-> TRUE,
                     expires_at |-> now + ReservationWindow,
                     created_at |-> now, items |-> OrderItemsOf(rows)]
                    @@ Pricing(rows)
       IN IF CreateOrderInsufficient(rows, sess[s].vsnap)
          THEN /\ sess' = [sess EXCEPT ![s] =
                               Finish(s, 400, "insufficient_stock", 0, << >>)]
               /\ UNCHANGED <<db, plock>>
          ELSE IF IdempotencyKeyTaken(sess[s].key)
          THEN /\ sess' = [sess EXCEPT ![s] =
                               Finish(s, 500, "integrity_error", 0, << >>)]
               /\ UNCHANGED <<db, plock>>
          ELSE /\ stock' = [v \in Variants |->
                              IF v \in VariantsOf(rows)
                              THEN sess[s].vsnap[v] - SumQty(rows, v)
                              ELSE stock[v]]
               /\ orders' = Append(orders, order)
               /\ payments' = Append(payments, NoPayment)
               /\ plock' = Append(plock, 0)
               /\ cart' = [cart EXCEPT ![u] = << >>]
               /\ IF sess[s].method = "cod"
                  THEN sess' = [sess EXCEPT ![s] =
                          [Finish(s, 0, "none", 0, << >>) EXCEPT
                              !.pc = "co_cod", !.oid = id, !.ord = order]]
                  ELSE sess' = [sess EXCEPT ![s] =
                          [Finish(s, 201, "created", id, order.order_number)
                              EXCEPT !.oid = id]]
    /\ vlock' = ReleaseV(s)
    /\ UNCHANGED <<now, nextRef, started, history>>

(***************************************************************************)
(* create_cod_payment (app/services/payment_service.py, lines 264-299),    *)
(* called by create_order (orders.py 251-264) after its commit, on the     *)
(* order as refreshed by that commit.                                      *)
(***************************************************************************)
\* payments.order_id without its unique index
PaymentOrderIdNotUnique(id) == FALSE

\* unique=True on payments.order_id (app/models/payment.py, line 24): the
\* INSERT of a second payment row for the order fails
PaymentRowExists(id) == payments[id] /= NoPayment

\* the order is left as it is
CodOrderLeftPending(ord) == ord

\* line 279
CodConfirmedOrder(ord) == [ord EXCEPT !.status = "confirmed"]

\* lines 271-277
CodPayment ==
    [method |-> "cod", payment_status |-> "pending",
     razorpay_order_id |-> NoRef, razorpay_payment_id |-> NoPaymentId]

CreateCodPayment(s) ==
    /\ sess[s].pc = "co_cod"
    /\ LET id == sess[s].oid
           loaded == sess[s].ord
       IN IF PaymentRowExists(id)
          THEN \* payments.order_id is unique: IntegrityError, rollback, 400
               /\ sess' = [sess EXCEPT ![s] = Finish(s, 400, "cod_failed", 0, << >>)]
               /\ UNCHANGED <<orders, payments>>
          ELSE /\ payments' = [payments EXCEPT ![id] = CodPayment]
               /\ orders' = [orders EXCEPT ![id] =
                      FlushOrder(orders[id], loaded, CodConfirmedOrder(loaded))]
               /\ \E q \in EnqueueOutcomes :
                      sess' = [sess EXCEPT ![s] =
                         SendOrderConfirmation(
                            [Finish(s, 200, "cod_placed", 0, loaded.order_number)
                                EXCEPT !.inserted = id], q)]
    /\ UNCHANGED <<stock, cart, now, nextRef, vlock, plock, started, history>>

(***************************************************************************)
(* verify_payment (app/api/v1/payments.py, lines 166-304).                 *)
(***************************************************************************)
\* the payment whose razorpay_order_id is ref (the set is empty or a singleton:
\* the gateway hands out every reference once)
PaymentByRef(ref) ==
    {i \in DOMAIN payments :
        payments[i] /= NoPayment /\ payments[i].razorpay_order_id = ref}

\* lines 197-204: the signature is recomputed from the two references and the
\* key secret and compared with the one supplied
SignatureMatches(ref, pid, sig) == Hmac(KEY_SECRET, <<ref, pid>>) = sig

\* no guard on a payment already successful
VerifyNeverProcessed(pay) == FALSE

\* lines 238-239: a payment already successful is not settled again (409)
VerifyAlreadyProcessed(pay) == pay.payment_status = "success"

\* lines 240-241
VerifyAlreadyFailed(pay) == pay.payment_status = "failed"

\* lines 182-241: SELECT ... FOR UPDATE of the payment, ownership, signature,
\* and the guards on a payment already settled
\* no ownership check
VerifyOwnershipUnchecked(ord, u) == FALSE

\* lines 192-194
VerifyForbidden(ord, u) == ord.user_id /= u

VerifyStart(s, u, ref, pid, sig) ==
    /\ NewSession(s)
    /\ started' = s
    /\ LET call == [Idle EXCEPT !.op = "verify_payment", !.user = u,
                                !.ref = ref, !.pid = pid, !.sig = sig]
           end(code, tag) ==
               [call EXCEPT !.pc = "done",
                    !.resp = Response(code, tag, 0, << >>)]
       IN IF PaymentByRef(ref) = {}
          THEN /\ sess' = [sess EXCEPT ![s] = end(404, "payment_not_found")]
               /\ UNCHANGED plock
          ELSE LET i == CHOOSE i \in PaymentByRef(ref) : TRUE
               IN /\ plock[i] = 0
                  /\ IF VerifyForbidden(orders[i], u)
                     THEN /\ sess' = [sess EXCEPT ![s] = end(403, "unauthorized")]
                          /\ UNCHANGED plock
                     ELSE IF SignatureMatches(ref, pid, sig)
                             /\ VerifyAlreadyProcessed(payments[i])
                     THEN /\ sess' = [sess EXCEPT ![s] =
                                         end(409, "already_processed")]
                          /\ UNCHANGED plock
                     ELSE IF SignatureMatches(ref, pid, sig)
                             /\ VerifyAlreadyFailed(payments[i])
                     THEN /\ sess' = [sess EXCEPT ![s] = end(400, "payment_failed")]
                          /\ UNCHANGED plock
                     ELSE /\ plock' = [plock EXCEPT ![i] = s]
                          /\ sess' = [sess EXCEPT ![s] =
                                 [call EXCEPT
                                    !.pc = "vp_lock", !.oid = i,
                                    !.pay = payments[i], !.ord = orders[i],
                                    !.tolock =
                                       IF SignatureMatches(ref, pid, sig)
                                          /\ ~orders[i].stock_deducted
                                       THEN SortedSeq(VariantsOf(orders[i].items))
                                       ELSE << >>]]
    /\ UNCHANGED <<db, now, nextRef, vlock, history>>

\* lines 258-265 (and 369-372): every item is checked on its own against the
\* locked quantity of its variant
SettleInsufficient(items, vsnap) ==
    \E i \in DOMAIN items : vsnap[items[i].variant_id] < items[i].quantity

\* lines 272-275 (and 377-379): every item's quantity is taken from its variant
SettleStock(items, vsnap) ==
    [v \in Variants |->
        IF v \in VariantsOf(items) THEN vsnap[v] - SumQty(items, v)
        ELSE stock[v]]

\* lines 277-279 (and 380-382)
ConfirmedOrder(ord) ==
    [ord EXCEPT !.status = "confirmed", !.expires_at = NoTime,
                !.stock_deducted = TRUE]

\* lines 217-220 (and 416-418)
FailedPayment(pay) == [pay EXCEPT !.payment_status = "failed"]
\* the order is set back to pending and its reservation dropped
RevertedOrderReleased(ord) ==
    [ord EXCEPT !.status = "pending", !.stock_deducted = FALSE]

RevertedOrder(ord) == [ord EXCEPT !.status = "pending"]

\* lines 204-236: on a mismatch the payment is marked failed and the order
\* pending, committed, and 400 returned.  Lines 243-287: stock check and
\* deduction if the order has none, payment success, order confirmed, commit
VerifyCommit(s) ==
    /\ sess[s].pc = "vp_lock"
    /\ sess[s].tolock = << >>
    /\ LET id == sess[s].oid
           ord == sess[s].ord
           pay == sess[s].pay
       IN IF ~SignatureMatches(sess[s].ref, sess[s].pid, sess[s].sig)
          THEN /\ payments' = [payments EXCEPT ![id] =
                      FlushPayment(payments[id], pay, FailedPayment(pay))]
               /\ orders' = [orders EXCEPT ![id] =
                      FlushOrder(orders[id], ord, RevertedOrder(ord))]
               /\ sess' = [sess EXCEPT ![s] =
                               Finish(s, 400, "invalid_signature", 0, << >>)]
               /\ UNCHANGED stock
          ELSE IF ~ord.stock_deducted /\ SettleInsufficient(ord.items, sess[s].vsnap)
          THEN /\ sess' = [sess EXCEPT ![s] =
                               Finish(s, 400, "insufficient_stock", 0, << >>)]
               /\ UNCHANGED <<stock, orders, payments>>
          ELSE /\ payments' = [payments EXCEPT ![id] =
                      FlushPayment(payments[id], pay,
                          [pay EXCEPT !.payment_status = "success",
                                      !.razorpay_payment_id = sess[s].pid])]
               /\ stock' = IF ord.stock_deducted THEN stock
                           ELSE SettleStock(ord.items, sess[s].vsnap)
               /\ orders' = [orders EXCEPT ![id] =
                      FlushOrder(orders[id], ord, ConfirmedOrder(ord))]
               /\ \E q \in EnqueueOutcomes :
                      sess' = [sess EXCEPT ![s] =
                         SendOrderConfirmation(
                            Finish(s, 200, "verified", id, << >>), q)]
    /\ vlock' = ReleaseV(s)
    /\ plock' = ReleaseP(s)
    /\ UNCHANGED <<cart, now, nextRef, started, history>>

(***************************************************************************)
(* razorpay_webhook (app/api/v1/payments.py, lines 307-433).               *)
(***************************************************************************)
\* lines 323-338: razorpay's verify_webhook_signature over the raw body
WebhookSignatureValid(event, ref, pid, sig) ==
    Hmac(WEBHOOK_SECRET, <<event, ref, pid>>) = sig

\* no duplicate detection
WebhookNeverDuplicate(pay) == FALSE

\* lines 352-353: a captured event for a payment already successful is
\* acknowledged as a duplicate
WebhookDuplicate(pay) == pay.payment_status = "success"

\* lines 323-353 and 406-415: transport signature, payment lookup (no lock),
\* duplicate acknowledgement of a payment already successful
WebhookStart(s, event, ref, pid, sig) ==
    /\ NewSession(s)
    /\ started' = s
    /\ LET call == [Idle EXCEPT !.op = "webhook", !.event = event,
                                !.ref = ref, !.pid = pid, !.sig = sig]
           end(code, tag) ==
               [call EXCEPT !.pc = "done",
                    !.resp = Response(code, tag, 0, << >>)]
       IN IF ~WebhookSignatureValid(event, ref, pid, sig)
          THEN sess' = [sess EXCEPT ![s] = end(400, "invalid_webhook_signature")]
          ELSE IF PaymentByRef(ref) = {}
          THEN sess' = [sess EXCEPT ![s] = end(200, "ok")]
          ELSE LET i == CHOOSE i \in PaymentByRef(ref) : TRUE
               IN IF event = "payment.captured" /\ WebhookDuplicate(payments[i])
                  THEN sess' = [sess EXCEPT ![s] = end(200, "duplicate")]
                  ELSE sess' = [sess EXCEPT ![s] =
                          [call EXCEPT
                             !.pc = "wh_lock", !.oid = i,
                             !.pay = payments[i], !.ord = orders[i],
                             !.tolock =
                                IF event = "payment.captured"
                                   /\ ~orders[i].stock_deducted
                                THEN SortedSeq(VariantsOf(orders[i].items))
                                ELSE << >>]]
    /\ UNCHANGED <<db, now, nextRef, vlock, plock, history>>

\* the UPDATE of a payments row waits for a FOR UPDATE lock another session
\* holds on it
PaymentRowFree(s, id) == plock[id] \in {0, s}

\* lines 355-396 (captured) and 415-419 (failed)
WebhookCommit(s) ==
    /\ sess[s].pc = "wh_lock"
    /\ sess[s].tolock = << >>
    /\ LET id == sess[s].oid
           ord == sess[s].ord
           pay == sess[s].pay
       IN IF sess[s].event = "payment.failed"
          THEN /\ FailedPayment(pay) /= pay => PaymentRowFree(s, id)
               /\ payments' = [payments EXCEPT ![id] =
                      FlushPayment(payments[id], pay, FailedPayment(pay))]
               /\ orders' = [orders EXCEPT ![id] =
                      FlushOrder(orders[id], ord, RevertedOrder(ord))]
               /\ sess' = [sess EXCEPT ![s] = Finish(s, 200, "failed", id, << >>)]
               /\ UNCHANGED stock
          ELSE IF ~ord.stock_deducted /\ SettleInsufficient(ord.items, sess[s].vsnap)
          THEN /\ sess' = [sess EXCEPT ![s] =
                               Finish(s, 400, "insufficient_stock", 0, << >>)]
               /\ UNCHANGED <<stock, orders, payments>>
          ELSE /\ PaymentRowFree(s, id)
               /\ payments' = [payments EXCEPT ![id] =
                      FlushPayment(payments[id], pay,
                          [pay EXCEPT !.payment_status = "success",
                                      !.razorpay_payment_id = sess[s].pid])]
               /\ stock' = IF ord.stock_deducted THEN stock
                           ELSE SettleStock(ord.items, sess[s].vsnap)
               /\ orders' = [orders EXCEPT ![id] =
                      FlushOrder(orders[id], ord, ConfirmedOrder(ord))]
               /\ \E q \in EnqueueOutcomes :
                      sess' = [sess EXCEPT ![s] =
                         SendOrderConfirmation(
                            Finish(s, 200, "processed", id, << >>), q)]
    /\ vlock' = ReleaseV(s)
    /\ UNCHANGED <<cart, now, nextRef, plock, started, history>>

(***************************************************************************)
(* cancel_order (app/api/v1/orders.py, lines 375-412).                     *)
(***************************************************************************)
Cancellable == {"pending", "confirmed", "processing"}

\* no guard on the status of the order
CancelNeverRefused(ord) == FALSE

\* lines 393-397: a shipped or delivered order cannot be cancelled
CancelRefused(ord) == ord.status \in {"shipped", "delivered"}

\* line 403
CancelRestores(ord) == ord.stock_deducted /\ ord.status \in Cancellable

\* lines 384-397: the order is read (no lock); another user's order is not
\* found, a shipped or delivered order is refused
CancelStart(s, u, id) ==
    /\ NewSession(s)
    /\ started' = s
    /\ id \in DOMAIN orders
    /\ LET call == [Idle EXCEPT !.op = "cancel_order", !.user = u, !.oid = id]
           end(code, tag) ==
               [call EXCEPT !.pc = "done",
                    !.resp = Response(code, tag, 0, << >>)]
       IN IF orders[id].user_id /= u
          THEN sess' = [sess EXCEPT ![s] = end(404, "order_not_found")]
          ELSE IF CancelRefused(orders[id])
          THEN sess' = [sess EXCEPT ![s] = end(400, "cannot_cancel")]
          ELSE sess' = [sess EXCEPT ![s] =
                  [call EXCEPT !.ord = orders[id],
                       !.pc = IF CancelRestores(orders[id])
                              THEN "ca_load" ELSE "ca_commit"]]
    /\ UNCHANGED <<db, now, nextRef, vlock, plock, history>>

\* lines 404-406: item.variant is loaded for every item, by a plain SELECT
CancelLoad(s) ==
    /\ sess[s].pc = "ca_load"
    /\ sess' = [sess EXCEPT
           ![s].pc = "ca_commit",
           ![s].vsnap = [v \in VariantsOf(sess[s].ord.items) |-> stock[v]]]
    /\ UNCHANGED <<db, now, nextRef, vlock, plock, started, history>>

\* lines 404-407 (and order_service.py 54-58): the quantities go back to the
\* loaded variants
RestoreStock(items, vsnap) ==
    [v \in Variants |->
        IF v \in VariantsOf(items) THEN vsnap[v] + SumQty(items, v)
        ELSE stock[v]]

\* lines 399-409
CancelledOrder(ord) ==
    [ord EXCEPT !.status = "cancelled", !.expires_at = NoTime,
                !.stock_deducted =
                    IF CancelRestores(ord) THEN FALSE ELSE ord.stock_deducted]

\* the UPDATE of a product_variants row waits for a lock another session holds
VariantRowsFree(s, vs) == \A v \in vs : vlock[v] \in {0, s}

\* lines 399-412
CancelCommit(s) ==
    /\ sess[s].pc = "ca_commit"
    /\ LET id == sess[s].oid
           ord == sess[s].ord
       IN /\ IF CancelRestores(ord)
             THEN /\ VariantRowsFree(s, VariantsOf(ord.items))
                  /\ stock' = RestoreStock(ord.items, sess[s].vsnap)
             ELSE UNCHANGED stock
          /\ orders' = [orders EXCEPT ![id] =
                 FlushOrder(orders[id], ord, CancelledOrder(ord))]
          /\ sess' = [sess EXCEPT ![s] = Finish(s, 200, "cancelled", id, << >>)]
    /\ UNCHANGED <<payments, cart, now, nextRef, vlock, plock, started, history>>

(***************************************************************************)
(* auto_cancel_pending_orders (app/services/order_service.py, lines 12-71) *)
(* as run by cleanup_expired_orders (app/tasks/order_tasks.py) and by the  *)
(* admin maintenance endpoint.                                             *)
(***************************************************************************)
\* no order is ever taken as expired
IsExpiredNever(ord, t) == FALSE

\* every pending order is taken as expired
IsExpiredAlways(ord, t) == TRUE

\* lines 34-38
IsExpired(ord, t) ==
    IF ord.expires_at /= NoTime THEN ord.expires_at <= t
    ELSE ord.created_at < t - FallbackCutoff

RECURSIVE PendingOrdersAnyStatus(_)
\* the query without its status filter
PendingOrdersAnyStatus(n) ==
    IF n = 0 THEN << >>
    ELSE PendingOrdersAnyStatus(n - 1) \o <<[id |-> n, ord |-> orders[n]]>>

RECURSIVE PendingOrders(_)
\* lines 24-30: the pending orders, as loaded by the query, up to order n
PendingOrders(n) ==
    IF n = 0 THEN << >>
    ELSE PendingOrders(n - 1) \o
         (IF orders[n].status = "pending"
          THEN <<[id |-> n, ord |-> orders[n]]>> ELSE << >>)

SweepStart(s) ==
    /\ NewSession(s)
    /\ started' = s
    /\ sess' = [sess EXCEPT ![s] =
           [Idle EXCEPT !.op = "sweep", !.pc = "sw_lock", !.idx = 1,
                        !.pending = PendingOrders(Len(orders))]]
    /\ UNCHANGED <<db, now, nextRef, vlock, plock, history>>

\* lines 33-68, one turn of the loop: an order that has not expired is
\* skipped; an expired one is marked cancelled, after the variants of its
\* items are locked if its stock is deducted
SweepNext(s) ==
    /\ sess[s].pc = "sw_lock"
    /\ sess[s].tolock = << >>
    /\ sess[s].idx <= Len(sess[s].pending)
    /\ LET p == sess[s].pending[sess[s].idx]
       IN IF ~IsExpired(p.ord, now)
          THEN sess' = [sess EXCEPT ![s].idx = sess[s].idx + 1]
          ELSE sess' = [sess EXCEPT
                  ![s].idx = sess[s].idx + 1,
                  ![s].marks = sess[s].marks \cup {sess[s].idx},
                  ![s].tolock = IF p.ord.stock_deducted
                                THEN SortedSeq(VariantsOf(p.ord.items))
                                ELSE << >>]
    /\ UNCHANGED <<db, now, nextRef, vlock, plock, started, history>>

RECURSIVE SweepRestored(_, _, _)
\* the quantity the loop has added to variant v over the marked orders
SweepRestored(pending, marks, v) ==
    IF pending = << >> THEN 0
    ELSE LET n == Len(pending)
             rest == SweepRestored(SubSeq(pending, 1, n - 1), marks, v)
         IN IF n \in marks /\ pending[n].ord.stock_deducted
            THEN rest + SumQty(pending[n].ord.items, v)
            ELSE rest

\* lines 58-61
ExpiredOrder(ord) ==
    [ord EXCEPT !.status = "cancelled", !.expires_at = NoTime,
                !.stock_deducted = FALSE]

\* line 70: the one commit, after the loop
SweepCommit(s) ==
    /\ sess[s].pc = "sw_lock"
    /\ sess[s].tolock = << >>
    /\ sess[s].idx > Len(sess[s].pending)
    /\ LET pending == sess[s].pending
           marks == sess[s].marks
           marked(id) == {k \in marks : pending[k].id = id}
       IN /\ stock' = [v \in Variants |->
                          IF v \notin DOMAIN sess[s].vsnap THEN stock[v]
                          ELSE sess[s].vsnap[v] + SweepRestored(pending, marks, v)]
          /\ orders' = [id \in DOMAIN orders |->
                 IF marked(id) = {} THEN orders[id]
                 ELSE LET k == CHOOSE k \in marked(id) : TRUE
                      IN FlushOrder(orders[id], pending[k].ord,
                                    ExpiredOrder(pending[k].ord))]
          /\ sess' = [sess EXCEPT ![s] =
                 [Finish(s, 200, "swept", 0, << >>) EXCEPT
                      !.cancelled = Cardinality(marks)]]
    /\ vlock' = ReleaseV(s)
    /\ UNCHANGED <<payments, cart, now, nextRef, plock, started, history>>

(***************************************************************************)
(* create_payment_order (app/api/v1/payments.py, lines 103-163).           *)
(***************************************************************************)
\* lines 110-138: the order must be the user's and pending; the gateway hands
\* out an order reference; a payment already successful is refused
CreatePaymentOrderStart(s, u, id) ==
    /\ NewSession(s)
    /\ started' = s
    /\ id \in DOMAIN orders
    /\ LET call == [Idle EXCEPT !.op = "create_payment_order", !.user = u,
                                !.oid = id]
           end(code, tag) ==
               [call EXCEPT !.pc = "done",
                    !.resp = Response(code, tag, 0, << >>)]
       IN IF orders[id].user_id /= u
          THEN /\ sess' = [sess EXCEPT ![s] = end(404, "order_not_found")]
               /\ UNCHANGED nextRef
          ELSE IF orders[id].status /= "pending"
          THEN /\ sess' = [sess EXCEPT ![s] = end(400, "order_not_pending")]
               /\ UNCHANGED nextRef
          ELSE /\ nextRef' = nextRef + 1
               /\ IF payments[id] /= NoPayment
                     /\ payments[id].payment_status = "success"
                  THEN sess' = [sess EXCEPT ![s] = end(409, "already_processed")]
                  ELSE sess' = [sess EXCEPT ![s] =
                          [call EXCEPT !.pc = "cp_commit", !.ref = nextRef,
                                       !.pay = payments[id]]]
    /\ UNCHANGED <<db, now, vlock, plock, history>>

\* lines 139-152: a new payment row, or the existing one re-armed
CreatePaymentOrderCommit(s) ==
    /\ sess[s].pc = "cp_commit"
    /\ LET id == sess[s].oid
           pay == sess[s].pay
       IN IF pay = NoPayment
          THEN IF PaymentRowExists(id)
               THEN \* payments.order_id is unique: IntegrityError
                    /\ sess' = [sess EXCEPT ![s] =
                                    Finish(s, 500, "integrity_error", 0, << >>)]
                    /\ UNCHANGED payments
               ELSE /\ payments' = [payments EXCEPT ![id] =
                           [method |-> "razorpay", payment_status |-> "pending",
                            razorpay_order_id |-> sess[s].ref,
                            razorpay_payment_id |-> NoPaymentId]]
                    /\ sess' = [sess EXCEPT ![s] =
                           [Finish(s, 200, "payment_order", id, << >>)
                               EXCEPT !.inserted = id]]
          ELSE /\ PaymentRowFree(s, id)
               /\ payments' = [payments EXCEPT ![id] =
                      FlushPayment(payments[id], pay,
                          [pay EXCEPT !.razorpay_order_id = sess[s].ref,
                                      !.payment_status = "pending"])]
               /\ sess' = [sess EXCEPT ![s] = Finish(s, 200, "payment_order", id, << >>)]
    /\ UNCHANGED <<stock, orders, cart, now, nextRef, vlock, plock, started,
                   history>>

(***************************************************************************)
(* update_order_status (app/services/order_tracking_service.py, lines      *)
(* 16-54), the admin's status update (app/api/v1/orders.py, lines 417-434; *)
(* app/api/v1/admin.py, lines 602-633 does the same).                      *)
(***************************************************************************)
\* lines 23-30: the order is read, no lock
AdminUpdateStart(s, id, status) ==
    /\ NewSession(s)
    /\ started' = s
    /\ id \in DOMAIN orders
    /\ sess' = [sess EXCEPT ![s] =
           [Idle EXCEPT !.op = "update_order_status", !.pc = "ad_commit",
                        !.oid = id, !.newstatus = status, !.ord = orders[id]]]
    /\ UNCHANGED <<db, now, nextRef, vlock, plock, history>>

\* lines 32-52: the status is set to the one asked for, whatever the current
\* one is, and committed; stock and stock_deducted are not looked at
AdminUpdateCommit(s) ==
    /\ sess[s].pc = "ad_commit"
    /\ LET id == sess[s].oid
           ord == sess[s].ord
       IN /\ orders' = [orders EXCEPT ![id] =
                 FlushOrder(orders[id], ord,
                            [ord EXCEPT !.status = sess[s].newstatus])]
          /\ sess' = [sess EXCEPT ![s] =
                 Finish(s, 200, "status_updated", id, << >>)]
    /\ UNCHANGED <<stock, payments, cart, now, nextRef, vlock, plock, started,
                   history>>

(***************************************************************************)
(* Time passes.  The clock is read only to stamp a new order (orders.py    *)
(* 214) and to compare with an order's stamps (order_service.py 22-38), so *)
(* it ticks only while some order can still age or be created.             *)
(***************************************************************************)
CanStillAge(ord) == ~(ord.created_at < now - FallbackCutoff)

Tick ==
    /\ now < MaxNow
    /\ \E i \in DOMAIN orders : CanStillAge(orders[i])
    /\ now' = now + 1
    /\ UNCHANGED <<db, nextRef, vlock, plock, sess, started, history>>

(***************************************************************************)
(* Requests.                                                               *)
(***************************************************************************)
Row(v, q) == [variant_id |-> v, quantity |-> q]

\* the carts a user may hold when the behaviour starts; add_to_cart
\* (app/api/v1/cart.py, lines 101-133) looks for the row and inserts it in two
\* statements with no unique index, so a cart can hold two rows of a variant
CartChoices ==
    {<< >>, <<Row(1, 1)>>, <<Row(1, 1), Row(1, 1)>>, <<Row(1, 1), Row(2, 1)>>}

Refs == 1..(nextRef - 1)

\* the references a request can carry: the ones handed out and one the gateway
\* never gave
RequestRefs == Refs \cup {nextRef}

VerifySignatures(ref, pid) ==
    {Hmac(KEY_SECRET, <<ref, pid>>), Hmac(ATTACKER_SECRET, <<ref, pid>>)}

WebhookSignatures(event, ref, pid) ==
    {Hmac(WEBHOOK_SECRET, <<event, ref, pid>>),
     Hmac(ATTACKER_SECRET, <<event, ref, pid>>)}

WebhookEvents == {"payment.captured", "payment.failed"}

CreateOrderStep(s) ==
    \/ \E u \in Users, key \in IdempotencyKeys, method \in {"razorpay", "cod"} :
          CreateOrderStart(s, u, key, method)
    \/ CreateOrderCart(s)
    \/ CreateOrderCommit(s)
    \/ CreateCodPayment(s)

VerifyStep(s) ==
    \/ \E u \in Users, ref \in RequestRefs, pid \in PaymentIds :
          \E sig \in VerifySignatures(ref, pid) : VerifyStart(s, u, ref, pid, sig)
    \/ VerifyCommit(s)

WebhookStep(s) ==
    \/ \E event \in WebhookEvents, ref \in RequestRefs, pid \in PaymentIds :
          \E sig \in WebhookSignatures(event, ref, pid) :
              WebhookStart(s, event, ref, pid, sig)
    \/ WebhookCommit(s)

CancelStep(s) ==
    \/ \E u \in Users, id \in DOMAIN orders : CancelStart(s, u, id)
    \/ CancelLoad(s)
    \/ CancelCommit(s)

SweepStep(s) ==
    \/ SweepStart(s)
    \/ SweepNext(s)
    \/ SweepCommit(s)

\* the statuses the admin sets in the model
AdminStatuses == {"shipped", "delivered", "cancelled"}

AdminUpdateStep(s) ==
    \/ \E id \in DOMAIN orders, status \in AdminStatuses :
          AdminUpdateStart(s, id, status)
    \/ AdminUpdateCommit(s)

CreatePaymentOrderStep(s) ==
    \/ \E u \in Users, id \in DOMAIN orders : CreatePaymentOrderStart(s, u, id)
    \/ CreatePaymentOrderCommit(s)

(***************************************************************************)
(* The shop from its opening: no order yet, carts filled.                  *)
(***************************************************************************)
InitCommon ==
    /\ now = 0
    /\ vlock = [v \in Variants |-> 0]
    /\ sess = [s \in Sessions |-> Idle]
    /\ started = 0
    /\ stock0 = stock
    /\ orders0 = orders
    /\ cart0 = cart

Init ==
    /\ stock = [v \in Variants |-> MaxStock]
    /\ orders = << >>
    /\ payments = << >>
    /\ plock = << >>
    /\ cart \in [Users -> CartChoices]
    /\ nextRef = 1
    /\ InitCommon

Next ==
    \/ \E s \in Sessions :
          \/ CreateOrderStep(s)
          \/ LockVariant(s)
          \/ CreatePaymentOrderStep(s)
          \/ CancelStep(s)
          \/ SweepStep(s)
    \/ Tick

Spec == Init /\ [][Next]_vars

(***************************************************************************)
(* Orders awaiting settlement: every user has placed one order and asked   *)
(* for its payment order.  An order placed by create_order has its stock   *)
(* deducted; an order from before the stock_deducted column existed        *)
(* (alembic a1f4b5c7d9e0, line 26: server_default false) has not.          *)
(***************************************************************************)
ItemChoices ==
    {<<Row(1, 1)>>, <<Row(1, 1), Row(1, 1)>>, <<Row(1, 1), Row(2, 1)>>}

AwaitingOrder(u, items, deducted, expires) ==
    [order_number |-> OrderNumber(u),
     user_id |-> u, idempotency_key |-> IF u = 1 THEN "k1" ELSE "k2",
     status |-> "pending", stock_deducted |-> deducted,
     expires_at |-> expires, created_at |-> 0 - ReservationWindow,
     items |-> items] @@ Pricing(items)

AwaitingPayment(ref) ==
    [method |-> "razorpay", payment_status |-> "pending",
     razorpay_order_id |-> ref, razorpay_payment_id |-> NoPaymentId]

InitSettle ==
    /\ \E q \in 0..MaxStock : stock = [v \in Variants |-> IF v = 1 THEN q ELSE MaxStock]
    /\ \E items \in ItemChoices, d1 \in BOOLEAN, d2 \in BOOLEAN, e \in {0, 1} :
          orders = <<AwaitingOrder(1, items, d1, e),
                     AwaitingOrder(2, <<Row(1, 1)>>, d2, 1)>>
    /\ payments = <<AwaitingPayment(1), AwaitingPayment(2)>>
    /\ plock = <<0, 0>>
    /\ cart = [u \in Users |-> << >>]
    /\ nextRef = 3
    /\ InitCommon

NextSettle ==
    \/ \E s \in Sessions :
          \/ VerifyStep(s)
          \/ WebhookStep(s)
          \/ LockVariant(s)
          \/ CancelStep(s)
          \/ SweepStep(s)
    \/ Tick

SpecSettle == InitSettle /\ [][NextSettle]_vars
(***************************************************************************)
(* Scenarios: the requests of one kind only, on the orders awaiting        *)
(* settlement or on the filled carts.                                      *)
(***************************************************************************)
NextVerify == \E s \in Sessions : VerifyStep(s) \/ LockVariant(s)

SpecVerify == InitSettle /\ [][NextVerify]_vars

NextWebhook == \E s \in Sessions : WebhookStep(s) \/ LockVariant(s)

SpecWebhook == InitSettle /\ [][NextWebhook]_vars

NextCreate == \E s \in Sessions : CreateOrderStep(s) \/ LockVariant(s)

SpecCreate == Init /\ [][NextCreate]_vars

(***************************************************************************)
(* The calls of a behaviour, as the sessions record them.                  *)
(***************************************************************************)
Ran(s) == sess[s].pc /= "idle"
Done(s) == sess[s].pc = "done"

\* the order a gateway reference was handed out for
RefOrder(ref) == CHOOSE i \in PaymentByRef(ref) : TRUE

\* session s is a verify_payment call for ref, by the owner of the order,
\* with the signature the gateway computes
OwnerVerify(s, ref) ==
    /\ sess[s].op = "verify_payment"
    /\ sess[s].ref = ref
    /\ PaymentByRef(ref) /= {}
    /\ sess[s].user = orders0[RefOrder(ref)].user_id
    /\ SignatureMatches(ref, sess[s].pid, sess[s].sig)

\* the call is a validly signed webhook delivery of `event` for ref
SignedWebhook(call, event, ref) ==
    /\ call.op = "webhook"
    /\ call.event = event
    /\ call.ref = ref
    /\ WebhookSignatureValid(event, ref, call.pid, call.sig)

\* the stock a variant holds once the order is settled, from the stock and the
\* order the behaviour started with: the quantities are taken unless the
\* order had them reserved already
SettledOnce(id, v) ==
    stock0[v] - (IF orders0[id].stock_deducted THEN 0
                 ELSE SumQty(orders0[id].items, v))

(***************************************************************************)
(* C1.  The stock of every variant is at least 0 in every reachable state, *)
(* whatever the interleaving, orders with several line items of one        *)
(* variant settled with stock_deducted = false included.                   *)
(* Refuted under SpecSettle: the settlement checks every item on its own.  *)
(***************************************************************************)
C1_StockNeverNegative == \A v \in Variants : stock[v] >= 0

(***************************************************************************)
(* C2.  Two orders with stock_deducted = false, each for one unit of a     *)
(* variant whose stock is 1, both verified with valid signatures, in any   *)
(* interleaving: exactly one verification succeeds; every call for the     *)
(* other order fails with insufficient stock, and that order stays pending *)
(* with a payment that is not successful.                                  *)
(***************************************************************************)
C2_LastUnit ==
    /\ stock0[1] = 1
    /\ \A i \in {1, 2} :
          orders0[i].items = <<Row(1, 1)>> /\ ~orders0[i].stock_deducted
    /\ \A s \in Sessions : Ran(s) => OwnerVerify(s, 1) \/ OwnerVerify(s, 2)
    /\ \A i \in {1, 2} : \E s \in Sessions : Done(s) /\ OwnerVerify(s, i)

C2_ExactlyOneVerifySucceeds ==
    C2_LastUnit =>
        \E w \in {1, 2} :
            LET l == 3 - w
            IN /\ Cardinality({s \in Sessions :
                                  Done(s) /\ sess[s].resp.tag = "verified"}) = 1
               /\ \E s \in Sessions :
                      /\ Done(s) /\ OwnerVerify(s, w)
                      /\ sess[s].resp.code = 200 /\ sess[s].resp.tag = "verified"
               /\ \A s \in Sessions :
                      Done(s) /\ OwnerVerify(s, l) =>
                          /\ sess[s].resp.code = 400
                          /\ sess[s].resp.tag = "insufficient_stock"
               /\ orders[w].status = "confirmed"
               /\ payments[w].payment_status = "success"
               /\ orders[l].status = "pending"
               /\ ~orders[l].stock_deducted
               /\ payments[l].payment_status /= "success"
               /\ stock[1] = 0

C2_Witness ==
    /\ C2_LastUnit
    /\ \E s1, s2 \in Sessions :
          /\ sess[s1].ref /= sess[s2].ref
          /\ sess[s1].resp.tag = "verified"
          /\ sess[s2].resp.tag = "insufficient_stock"

(***************************************************************************)
(* C3.  A create_order call with a (user, idempotency key) for which an    *)
(* earlier call has committed an order returns that order's id and order   *)
(* number and re-runs no side effect: stock, cart, orders and payments     *)
(* stay exactly as they were.                                              *)
(***************************************************************************)
C3_Committed(u, key) ==
    {i \in DOMAIN orders :
        orders[i].user_id = u /\ orders[i].idempotency_key = key}

C3_ReplayReturnsSameOrder ==
    [][\A s \in Sessions :
          (/\ sess[s].pc = "idle"
           /\ sess'[s].op = "create_order"
           /\ C3_Committed(sess'[s].user, sess'[s].key) /= {})
          => /\ sess'[s].pc = "done"
             /\ sess'[s].resp.code = 200
             /\ \E first \in Sessions \ {s} :
                    /\ sess[first].op = "create_order"
                    /\ sess[first].user = sess'[s].user
                    /\ sess[first].key = sess'[s].key
                    /\ sess[first].oid \in DOMAIN orders
                    /\ sess'[s].resp.order_id = sess[first].oid
                    /\ sess'[s].resp.order_number =
                           orders[sess[first].oid].order_number
                    /\ Done(first) =>
                           sess'[s].resp.order_number =
                               sess[first].resp.order_number
             /\ db' = db]_vars

C3_Witness ==
    \E first, s \in Sessions :
        /\ first /= s
        /\ Done(first) /\ Done(s)
        /\ sess[first].resp.tag \in {"created", "cod_placed"}
        /\ sess[s].resp.tag = "exists"
        /\ sess[s].user = sess[first].user /\ sess[s].key = sess[first].key
        /\ sess[s].resp.order_id = sess[first].oid
        /\ sess[s].resp.order_number = sess[first].resp.order_number

(***************************************************************************)
(* C4.  After any number of concurrent create_order calls with one         *)
(* (user, idempotency key), at most one order exists for the pair, stock   *)
(* is deducted once for every order that exists, and a call that created   *)
(* no order leaves stock and cart as if it had not run.                    *)
(***************************************************************************)
RECURSIVE C4_Ordered(_, _)
\* the quantity of variant v in the items of the orders 1..n
C4_Ordered(n, v) ==
    IF n = 0 THEN 0 ELSE C4_Ordered(n - 1, v) + SumQty(orders[n].items, v)

C4_AtMostOneOrderPerKey ==
    /\ \A i, j \in DOMAIN orders :
          (/\ orders[i].user_id = orders[j].user_id
           /\ orders[i].idempotency_key = orders[j].idempotency_key) => i = j
    /\ \A v \in Variants : stock[v] = stock0[v] - C4_Ordered(Len(orders), v)
    /\ \A u \in Users :
          cart[u] = IF \E i \in DOMAIN orders : orders[i].user_id = u
                    THEN << >> ELSE cart0[u]
    /\ \A i \in DOMAIN orders :
          Cardinality({s \in Sessions :
                          /\ sess[s].op = "create_order"
                          /\ sess[s].oid = i
                          /\ sess[s].resp.tag /= "exists"}) = 1

C4_Witness ==
    \E s1, s2 \in Sessions :
        /\ s1 /= s2
        /\ Done(s1) /\ Done(s2)
        /\ sess[s1].op = "create_order" /\ sess[s2].op = "create_order"
        /\ sess[s1].user = sess[s2].user /\ sess[s1].key = sess[s2].key
        /\ sess[s1].resp.code \in {200, 201}
        /\ sess[s1].resp.tag /= "exists"
        /\ sess[s2].resp.code = 500 /\ sess[s2].resp.tag = "integrity_error"

(***************************************************************************)
(* C5.  verify_payment called again with the same gateway references and a *)
(* valid signature, after a call that succeeded: the later call fails with *)
(* 409 (already processed); over all the calls the quantities of the order *)
(* are taken from stock once (not at all if they were reserved) and the    *)
(* order is confirmed with a successful payment.                           *)
(***************************************************************************)
C5_SecondVerifyAlreadyProcessed ==
    \A ref \in Refs :
        (\A s \in Sessions : Ran(s) => OwnerVerify(s, ref)) =>
            \A s1, s2 \in Sessions :
                (/\ s1 < s2
                 /\ Done(s1) /\ Done(s2)
                 /\ sess[s1].resp.tag = "verified")
                => /\ sess[s1].resp.code = 200
                   /\ sess[s2].resp.code = 409
                   /\ sess[s2].resp.tag = "already_processed"
                   /\ orders[RefOrder(ref)].status = "confirmed"
                   /\ orders[RefOrder(ref)].stock_deducted
                   /\ payments[RefOrder(ref)].payment_status = "success"
                   /\ \A v \in Variants :
                          stock[v] = SettledOnce(RefOrder(ref), v)

C5_Witness ==
    \E ref \in Refs, s1, s2 \in Sessions :
        /\ \A s \in Sessions : Ran(s) => OwnerVerify(s, ref)
        /\ s1 < s2
        /\ ~orders0[RefOrder(ref)].stock_deducted
        /\ sess[s1].resp.tag = "verified"
        /\ sess[s2].resp.tag = "already_processed"

C7_SuccessIsTerminal ==
    [][\A i \in DOMAIN payments :
          payments[i].payment_status = "success" =>
              /\ payments'[i].payment_status = "success"
              /\ orders[i].status = "confirmed" =>
                     orders'[i].status /= "pending"]_vars

(***************************************************************************)
(* C8.  A verify_payment call by the owner whose signature does not match  *)
(* ends with 400 (invalid signature) and leaves payments, orders and stock *)
(* as they were.                                                           *)
(* Refuted under SpecVerify: the call commits the payment as failed and    *)
(* the order as pending before it answers.                                 *)
(***************************************************************************)
C8_ForgedSignatureChangesNothing ==
    [][\A s \in Sessions :
          (/\ sess[s].op = "verify_payment"
           /\ sess[s].pc = "vp_lock"
           /\ ~SignatureMatches(sess[s].ref, sess[s].pid, sess[s].sig)
           /\ sess'[s].pc = "done")
          => /\ sess'[s].resp.code = 400
             /\ sess'[s].resp.tag = "invalid_signature"
             /\ db' = db]_vars

(***************************************************************************)
(* C9.  An order with stock_deducted = true on which only cancel_order     *)
(* calls of its owner and expiry sweeps ran, in any interleaving, and      *)
(* which they cancelled: stock_deducted is false and every variant holds   *)
(* its initial stock plus the order's quantity for it, once.               *)
(* Refuted under SpecSettle: a sweep or a cancel that loaded the order     *)
(* before another one committed restores the quantities again.             *)
(***************************************************************************)
C9_Reclaims(s, id) ==
    \/ sess[s].op = "sweep"
    \/ /\ sess[s].op = "cancel_order"
       /\ sess[s].oid = id
       /\ sess[s].user = orders0[id].user_id

C9_RestoredExactlyOnce ==
    \A id \in DOMAIN orders0 :
        (/\ orders0[id].stock_deducted
         /\ \A s \in Sessions : Ran(s) => Done(s) /\ C9_Reclaims(s, id)
         /\ orders[id].status = "cancelled"
         /\ \A j \in DOMAIN orders0 \ {id} : orders[j] = orders0[j])
        => /\ ~orders[id].stock_deducted
           /\ \A v \in Variants :
                  stock[v] = stock0[v] + SumQty(orders0[id].items, v)

(***************************************************************************)
(* C10.  One expiry sweep and one verify_payment with a valid signature on *)
(* the same expired pending order with stock_deducted = true, in any       *)
(* interleaving, end either with the order cancelled, its stock restored,  *)
(* stock_deducted false and the payment not successful, or with the order  *)
(* confirmed, the payment successful, stock_deducted true and the stock    *)
(* not restored.                                                           *)
(* Refuted under SpecSettle: the sweep and the verification both commit    *)
(* what they computed from the order as they loaded it.                    *)
(***************************************************************************)
C10_SweepOrVerifyWins ==
    \A id \in DOMAIN orders0 : \A sv, ss \in Sessions :
        (/\ orders0[id].stock_deducted
         /\ IsExpired(orders0[id], 0)
         /\ {s \in Sessions : Ran(s)} = {sv, ss}
         /\ Done(sv) /\ Done(ss)
         /\ OwnerVerify(sv, payments[id].razorpay_order_id)
         /\ sess[ss].op = "sweep"
         /\ \A j \in DOMAIN orders0 \ {id} : orders[j] = orders0[j])
        => \/ /\ orders[id].status = "cancelled"
              /\ ~orders[id].stock_deducted
              /\ payments[id].payment_status /= "success"
              /\ \A v \in Variants :
                     stock[v] = stock0[v] + SumQty(orders0[id].items, v)
           \/ /\ orders[id].status = "confirmed"
              /\ orders[id].stock_deducted
              /\ payments[id].payment_status = "success"
              /\ \A v \in Variants : stock[v] = stock0[v]

(***************************************************************************)
(* Scenario: the reclamation task run again and again, every run after the *)
(* one before it has ended (cleanup_expired_orders, app/tasks/             *)
(* order_tasks.py, as one beat worker runs it), on the orders awaiting     *)
(* settlement.                                                             *)
(***************************************************************************)
Quiet == \A s \in Sessions : sess[s].pc \in {"idle", "done"}

NextSweep ==
    \/ \E s \in Sessions :
          \/ Quiet /\ SweepStart(s)
          \/ SweepNext(s)
          \/ SweepCommit(s)
          \/ LockVariant(s)
    \/ Tick

SpecSweep == InitSettle /\ [][NextSweep]_vars

(***************************************************************************)
(* C11.  A sweep leaves a pending order whose expires_at had passed        *)
(* cancelled, with stock_deducted false and expires_at cleared, and every  *)
(* variant holds its initial stock plus the quantities of the cancelled    *)
(* orders that had their stock deducted, once; a later sweep counts and    *)
(* changes no order an earlier one cancelled: the counts the sweeps return *)
(* add up to the number of cancelled orders.                               *)
(***************************************************************************)
RECURSIVE C11_Restored(_, _)
\* the quantity of variant v the orders 1..n hold that are cancelled now and
\* had their stock deducted at the start
C11_Restored(n, v) ==
    IF n = 0 THEN 0
    ELSE C11_Restored(n - 1, v) +
         (IF orders[n].status = "cancelled" /\ orders0[n].stock_deducted
          THEN SumQty(orders0[n].items, v) ELSE 0)

RECURSIVE C11_Counted(_)
\* the sum of the counts the sweeps 1..n have returned
C11_Counted(n) ==
    IF n = 0 THEN 0
    ELSE C11_Counted(n - 1) + (IF Done(n) THEN sess[n].cancelled ELSE 0)

C11_SweepRestoresOnce ==
    Quiet =>
        /\ \A id \in DOMAIN orders :
              (/\ \E s \in Sessions : Done(s)
               /\ orders0[id].expires_at /= NoTime
               /\ orders0[id].expires_at <= 0)
              => /\ orders[id].status = "cancelled"
                 /\ ~orders[id].stock_deducted
                 /\ orders[id].expires_at = NoTime
        /\ \A id \in DOMAIN orders :
              orders[id].status /= "cancelled" => orders[id] = orders0[id]
        /\ \A v \in Variants :
              stock[v] = stock0[v] + C11_Restored(Len(orders), v)
        /\ C11_Counted(MaxCalls) =
              Cardinality({id \in DOMAIN orders :
                              orders[id].status = "cancelled"})
        /\ \A s1, s2 \in Sessions :
              (s1 < s2 /\ Done(s2) /\ now = 0) => sess[s2].cancelled = 0

C11_Witness ==
    \E s1, s2 \in Sessions :
        /\ s1 < s2 /\ Done(s1) /\ Done(s2)
        /\ orders0[1].stock_deducted /\ orders0[1].expires_at = 0
        /\ orders[1].status = "cancelled"
        /\ stock[1] = stock0[1] + SumQty(orders0[1].items, 1)
        /\ sess[s1].cancelled = 1
        /\ sess[s2].cancelled = 0

(***************************************************************************)
(* Scenario: the admin moves the orders awaiting settlement through their  *)
(* fulfilment while their owners try to cancel them.                       *)
(***************************************************************************)
NextFulfil == \E s \in Sessions : AdminUpdateStep(s) \/ CancelStep(s)

SpecFulfil == InitSettle /\ [][NextFulfil]_vars

(***************************************************************************)
(* C12.  cancel_order by the owner of an order that is shipped or          *)
(* delivered is answered 400 and changes nothing: the order (its status    *)
(* and stock_deducted flag included) and the stock of every variant stay   *)
(* as they were, whether stock_deducted is true or false.                  *)
(***************************************************************************)
C12_ShippedOrDeliveredNotCancelled ==
    [][\A s \in Sessions :
          (/\ sess[s].pc = "idle"
           /\ sess'[s].op = "cancel_order"
           /\ sess'[s].oid \in DOMAIN orders
           /\ orders[sess'[s].oid].user_id = sess'[s].user
           /\ orders[sess'[s].oid].status \in {"shipped", "delivered"})
          => /\ sess'[s].pc = "done"
             /\ sess'[s].resp.code = 400
             /\ sess'[s].resp.tag = "cannot_cancel"
             /\ db' = db]_vars

C12_Witness ==
    \E s \in Sessions :
        /\ Done(s)
        /\ sess[s].op = "cancel_order"
        /\ sess[s].resp.code = 400
        /\ sess[s].oid \in DOMAIN orders
        /\ orders[sess[s].oid].status = "shipped"
        /\ orders[sess[s].oid].stock_deducted
        /\ orders[sess[s].oid].user_id = sess[s].user
        /\ stock = stock0

(***************************************************************************)
(* C13.  An order that is cancelled or delivered keeps its status in every *)
(* later step, whatever operation takes the step.                          *)
(* Refuted under SpecSettle: a verification (with a valid or a wrong       *)
(* signature) and a webhook notification set the status of the order of    *)
(* the payment without looking at the status it has.                       *)
(***************************************************************************)
C13_CancelledAndDeliveredAreTerminal ==
    [][\A i \in DOMAIN orders :
          orders[i].status \in {"cancelled", "delivered"} =>
              orders'[i].status = orders[i].status]_vars

(***************************************************************************)
(* C14.  A create_order call that reaches its stock check while a variant  *)
(* of its cart holds less than the summed quantity the cart asks of it is  *)
(* answered 400 (insufficient stock) and changes nothing: no stock is      *)
(* reduced, no order is created, the cart is left as it was.               *)
(***************************************************************************)
C14_CreateOrderAllOrNothing ==
    [][\A s \in Sessions :
          (/\ sess[s].op = "create_order"
           /\ sess[s].pc = "co_lock"
           /\ sess[s].tolock = << >>
           /\ sess'[s].pc /= "co_lock"
           /\ \E v \in VariantsOf(sess[s].cartsnap) :
                  stock[v] < SumQty(sess[s].cartsnap, v))
          => /\ sess'[s].pc = "done"
             /\ sess'[s].resp.code = 400
             /\ sess'[s].resp.tag = "insufficient_stock"
             /\ db' = db]_vars

C14_Witness ==
    \E s \in Sessions :
        /\ Done(s)
        /\ sess[s].op = "create_order"
        /\ sess[s].resp.tag = "insufficient_stock"
        /\ cart[sess[s].user] = <<Row(1, 1), Row(2, 1)>>
        /\ stock[1] = 0 /\ stock[2] = stock0[2]

(***************************************************************************)
(* C15.  Every webhook notification whose transport signature is valid is  *)
(* answered 2xx: 400 is answered for an invalid signature only.            *)
(* Refuted under SpecWebhook: a capture for an order that has no stock     *)
(* deducted and whose variant no longer holds its quantity is answered     *)
(* 400.                                                                    *)
(***************************************************************************)
C15_SignedNotificationAnswered2xx ==
    \A s \in Sessions :
        (/\ Done(s)
         /\ sess[s].op = "webhook"
         /\ WebhookSignatureValid(sess[s].event, sess[s].ref, sess[s].pid,
                                  sess[s].sig))
        => sess[s].resp.code \in 200..299

(***************************************************************************)
(* Scenario: the beat schedule (app/core/celery_app.py, lines 69-74) fires *)
(* cancel_expired_orders every five minutes: the worker, session 1, has    *)
(* run the task before and runs it again whenever its last run has ended,  *)
(* while verifications arrive for the orders awaiting settlement.  A run   *)
(* of the task and a request that has started go on to their end (weak     *)
(* fairness of the steps of every session); nothing makes a verification   *)
(* arrive or the clock tick.                                               *)
(***************************************************************************)
BeatWorker == 1

\* the schedule fires again: the same task, in a fresh session
SweepRestart(s) ==
    /\ s = BeatWorker
    /\ sess[s].op = "sweep" /\ sess[s].pc = "done"
    /\ sess' = [sess EXCEPT ![s] =
           [Idle EXCEPT !.op = "sweep", !.pc = "sw_lock", !.idx = 1,
                        !.pending = PendingOrders(Len(orders))]]
    /\ UNCHANGED <<db, now, nextRef, vlock, plock, started, history>>

InitReclaim ==
    /\ stock = [v \in Variants |-> MaxStock]
    /\ \E items \in ItemChoices, d1 \in BOOLEAN, e \in {0, 1} :
          orders = <<AwaitingOrder(1, items, d1, e),
                     AwaitingOrder(2, <<Row(1, 1)>>, TRUE, 1)>>
    /\ payments = <<AwaitingPayment(1), AwaitingPayment(2)>>
    /\ plock = <<0, 0>>
    /\ cart = [u \in Users |-> << >>]
    /\ nextRef = 3
    /\ now = 0
    /\ vlock = [v \in Variants |-> 0]
    /\ sess = [s \in Sessions |->
                 IF s = BeatWorker
                 THEN [Idle EXCEPT !.op = "sweep", !.pc = "done",
                                   !.resp = Response(200, "swept", 0, << >>)]
                 ELSE Idle]
    /\ started = BeatWorker
    /\ stock0 = stock
    /\ orders0 = orders
    /\ cart0 = cart

SessionWork(s) ==
    \/ SweepRestart(s)
    \/ SweepNext(s)
    \/ SweepCommit(s)
    \/ LockVariant(s)
    \/ VerifyCommit(s)

NextReclaim ==
    \/ \E s \in Sessions :
          \/ SessionWork(s)
          \/ \E u \in Users, ref \in RequestRefs, pid \in PaymentIds :
                \E sig \in VerifySignatures(ref, pid) :
                    VerifyStart(s, u, ref, pid, sig)
    \/ Tick

SpecReclaim ==
    /\ InitReclaim
    /\ [][NextReclaim]_vars
    /\ \A s \in Sessions : WF_vars(SessionWork(s))

C18_NotFoundOrForbiddenChangesNothing ==
    [][\A s \in Sessions :
          (sess[s].pc = "idle" /\ sess'[s].op = "verify_payment")
          => LET ref == sess'[s].ref
                 u == sess'[s].user
             IN /\ PaymentByRef(ref) = {}
                   => /\ sess'[s].pc = "done"
                      /\ sess'[s].resp.code = 404
                      /\ db' = db /\ plock' = plock /\ vlock' = vlock
                /\ (PaymentByRef(ref) /= {} /\ orders[RefOrder(ref)].user_id /= u)
                   => /\ sess'[s].pc = "done"
                      /\ sess'[s].resp.code = 403
                      /\ db' = db /\ plock' = plock /\ vlock' = vlock]_vars

C18_Witness ==
    \E s1, s2 \in Sessions :
        /\ Done(s1) /\ sess[s1].op = "verify_payment"
        /\ sess[s1].resp.code = 404
        /\ PaymentByRef(sess[s1].ref) = {}
        /\ ~SignatureMatches(sess[s1].ref, sess[s1].pid, sess[s1].sig)
        /\ Done(s2) /\ sess[s2].op = "verify_payment"
        /\ sess[s2].resp.code = 403
        /\ PaymentByRef(sess[s2].ref) /= {}
        /\ sess[s2].user /= orders[RefOrder(sess[s2].ref)].user_id
        /\ ~SignatureMatches(sess[s2].ref, sess[s2].pid, sess[s2].sig)
        /\ payments[RefOrder(sess[s2].ref)].payment_status = "pending"
        /\ db = <<stock0, orders0, payments, cart0>>

(***************************************************************************)
(* One order awaits settlement and the other user's cart is filled: the    *)
(* three calls that enqueue the order confirmation can all succeed.        *)
(***************************************************************************)
InitNotify ==
    /\ stock = [v \in Variants |-> MaxStock]
    /\ \E items \in ItemChoices, d1 \in BOOLEAN :
          orders = <<AwaitingOrder(1, items, d1, 1)>>
    /\ payments = <<AwaitingPayment(1)>>
    /\ plock = <<0>>
    /\ cart = [u \in Users |-> IF u = 2 THEN <<Row(1, 1)>> ELSE << >>]
    /\ nextRef = 2
    /\ InitCommon

NextNotify ==
    \E s \in Sessions :
        \/ VerifyStep(s)
        \/ WebhookStep(s)
        \/ CreateOrderStep(s)
        \/ LockVariant(s)

SpecNotify == InitNotify /\ [][NextNotify]_vars

(***************************************************************************)
(* C19.  When the order confirmation cannot be enqueued after verify_      *)
(* payment, a webhook capture or the COD confirmation has committed, the   *)
(* call still answers 200 with the response of a success, and what the     *)
(* transaction committed stays: the payment successful (pending for COD),  *)
(* the order confirmed with stock_deducted set, the stock as the           *)
(* transaction left it.                                                    *)
(***************************************************************************)
C19_EnqueueFailureKeepsCommit ==
    [][\A s \in Sessions :
          (sess[s].notify = "none" /\ sess'[s].notify = "failed")
          => LET id == sess[s].oid
                 cod == sess[s].op = "create_order"
             IN /\ sess[s].op \in {"verify_payment", "webhook", "create_order"}
                /\ sess'[s].pc = "done"
                /\ sess'[s].resp.code = 200
                /\ sess'[s].resp.tag =
                      (IF cod THEN "cod_placed"
                       ELSE IF sess[s].op = "webhook" THEN "processed"
                       ELSE "verified")
                /\ payments'[id].payment_status =
                      (IF cod THEN "pending" ELSE "success")
                /\ orders'[id].status = "confirmed"
                /\ orders'[id].stock_deducted
                /\ \A v \in Variants :
                      stock'[v] =
                         IF cod \/ sess[s].ord.stock_deducted THEN stock[v]
                         ELSE stock[v] - SumQty(sess[s].ord.items, v)
                /\ \A v \in Variants : vlock'[v] /= s
                /\ \A i \in DOMAIN plock' : plock'[i] /= s]_vars

C19_Witness ==
    \E s1, s2 \in Sessions :
        /\ Done(s1) /\ sess[s1].notify = "failed"
        /\ sess[s1].op \in {"verify_payment", "webhook"}
        /\ sess[s1].resp.code = 200
        /\ payments[sess[s1].oid].payment_status = "success"
        /\ orders[sess[s1].oid].status = "confirmed"
        /\ Done(s2) /\ sess[s2].notify = "failed"
        /\ sess[s2].op = "create_order"
        /\ sess[s2].resp.tag = "cod_placed"
        /\ payments[sess[s2].oid].payment_status = "pending"
        /\ orders[sess[s2].oid].status = "confirmed"

(***************************************************************************)
(* C20.  A create_order call that reaches its commit with a key another    *)
(* user's order carries, while the caller has no order with that key and   *)
(* the stock covers the cart, is not answered as a replay and creates the  *)
(* caller's own order from the caller's cart.                              *)
(* Refuted under SpecCreate: the unique index is on the key alone, the     *)
(* INSERT fails, the call is rolled back and answered 500.                 *)
(***************************************************************************)
C20_KeysScopedPerUser ==
    [][\A s \in Sessions :
          (/\ sess[s].op = "create_order"
           /\ sess[s].pc = "co_lock"
           /\ sess[s].tolock = << >>
           /\ sess'[s].pc /= "co_lock"
           /\ \E i \in DOMAIN orders :
                  /\ orders[i].idempotency_key = sess[s].key
                  /\ orders[i].user_id /= sess[s].user
           /\ ExistingOrder(sess[s].user, sess[s].key) = {}
           /\ \A v \in VariantsOf(sess[s].cartsnap) :
                  stock[v] >= SumQty(sess[s].cartsnap, v))
          => LET id == Len(orders) + 1
             IN /\ sess'[s].resp.tag /= "exists"
                /\ Len(orders') = id
                /\ orders'[id].user_id = sess[s].user
                /\ orders'[id].idempotency_key = sess[s].key
                /\ orders'[id].items = OrderItemsOf(sess[s].cartsnap)
                /\ cart'[sess[s].user] = << >>]_vars

(***************************************************************************)
(* Two reserved orders of user 1 await the sweep, the older on variant 2   *)
(* and the newer on variant 1 (the second placed with a key of its own),   *)
(* while user 2 checks out a filled cart.                                  *)
(***************************************************************************)
InitLocks ==
    /\ stock = [v \in Variants |-> MaxStock]
    /\ \E e1, e2 \in {0, 1} :
          orders = <<AwaitingOrder(1, <<Row(2, 1)>>, TRUE, e1),
                     [AwaitingOrder(2, <<Row(1, 1)>>, TRUE, e2) EXCEPT
                         !.user_id = 1, !.idempotency_key = "k0"]>>
    /\ payments = <<AwaitingPayment(1), AwaitingPayment(2)>>
    /\ plock = <<0, 0>>
    /\ cart \in [Users -> CartChoices]
    /\ nextRef = 3
    /\ InitCommon

NextLocks ==
    \/ \E s \in Sessions :
          \/ CreateOrderStep(s)
          \/ SweepStep(s)
          \/ LockVariant(s)
    \/ Tick

SpecLocks == InitLocks /\ [][NextLocks]_vars

\* session a waits for a variant row that session b holds
WaitsFor(a, b) ==
    /\ a /= b
    /\ sess[a].pc \in {"co_lock", "vp_lock", "wh_lock", "sw_lock"}
    /\ sess[a].tolock /= << >>
    /\ vlock[Head(sess[a].tolock)] = b

(***************************************************************************)
(* C21.  No set of running transactions is ever such that each of them     *)
(* waits for a variant row held by another of the set.                     *)
(* Refuted under SpecLocks: the sweep keeps the locks of every order it    *)
(* has handled until its one commit, so it holds variant 2 for the first   *)
(* order and asks for variant 1 for the second, while a create_order for   *)
(* variants 1 and 2 holds 1 and asks for 2.                                *)
(***************************************************************************)
C21_NoDeadlock ==
    \A W \in SUBSET Sessions :
        W /= {} => \E a \in W : \A b \in W : ~WaitsFor(a, b)

(***************************************************************************)
(* The sweep stopped part-way: an exception in the loop or the worker      *)
(* ending (app/tasks/order_tasks.py, lines 18-21).  Nothing was committed; *)
(* closing the session rolls the transaction back and releases its locks.  *)
(***************************************************************************)
SweepInterrupted(s) ==
    /\ sess[s].op = "sweep"
    /\ sess[s].pc = "sw_lock"
    /\ sess' = [sess EXCEPT ![s] = Finish(s, 500, "interrupted", 0, << >>)]
    /\ vlock' = ReleaseV(s)
    /\ UNCHANGED <<db, now, nextRef, plock, started, history>>

NextInterrupt ==
    \/ NextSweep
    \/ \E s \in Sessions : SweepInterrupted(s)

SpecInterrupt == InitSettle /\ [][NextInterrupt]_vars

\* the turn k of the loop of sweep s is over: the order was expired, its
\* variants are locked, its stock and status are changed in the session
SweepProcessed(s, k) ==
    /\ k \in sess[s].marks
    /\ k < sess[s].idx - 1 \/ sess[s].tolock = << >>

(***************************************************************************)
(* C22.  When a sweep is interrupted part-way through its batch, every     *)
(* order it had already processed is cancelled with stock_deducted clear,  *)
(* and every order it had not processed is as it was.                      *)
(* Refuted under SpecInterrupt: the loop runs in one transaction with one  *)
(* commit after it, so an interrupted sweep leaves the orders it had       *)
(* processed pending, their stock still reserved.                          *)
(***************************************************************************)
C22_InterruptedSweepKeepsProcessed ==
    [][\A s \in Sessions :
          (/\ sess[s].op = "sweep" /\ sess[s].pc = "sw_lock"
           /\ sess'[s].pc = "done" /\ sess'[s].resp.tag = "interrupted")
          => \A k \in DOMAIN sess[s].pending :
                LET id == sess[s].pending[k].id
                IN IF SweepProcessed(s, k)
                   THEN /\ orders'[id].status = "cancelled"
                        /\ ~orders'[id].stock_deducted
                   ELSE orders'[id] = orders[id]]_vars

(***************************************************************************)
(* C23.  An order that is confirmed or cancelled has no expires_at.        *)
(* Refuted under SpecCreate: create_cod_payment confirms the order and     *)
(* leaves the expires_at that create_order set.                            *)
(***************************************************************************)
C23_SettledOrderHasNoExpiry ==
    \A i \in DOMAIN orders :
        orders[i].status \in {"confirmed", "cancelled"}
        => orders[i].expires_at = NoTime

(***************************************************************************)
(* Orders awaiting settlement that create_order placed: each has its       *)
(* stock reserved (app/api/v1/orders.py, line 218).                        *)
(***************************************************************************)
InitReserved ==
    /\ \E q \in 0..MaxStock : stock = [v \in Variants |-> IF v = 1 THEN q ELSE MaxStock]
    /\ \E items \in ItemChoices, e \in {0, 1} :
          orders = <<AwaitingOrder(1, items, TRUE, e),
                     AwaitingOrder(2, <<Row(1, 1)>>, TRUE, 1)>>
    /\ payments = <<AwaitingPayment(1), AwaitingPayment(2)>>
    /\ plock = <<0, 0>>
    /\ cart = [u \in Users |-> << >>]
    /\ nextRef = 3
    /\ InitCommon

SpecReserved == InitReserved /\ [][NextSettle]_vars

(***************************************************************************)
(* C24.  Every pending order has stock_deducted set.                       *)
(* Refuted under SpecReserved: after cancel_order (or the sweep) has       *)
(* cancelled an order and returned its stock, a verify_payment with a      *)
(* wrong signature or a payment.failed notification sets the order back    *)
(* to pending, with stock_deducted clear.                                  *)
(***************************************************************************)
C24_PendingImpliesReserved ==
    \A i \in DOMAIN orders :
        orders[i].status = "pending" => orders[i].stock_deducted

Coupons ==
    {[code |-> "SAVE10", discount_type |-> "percentage", discount_value |-> 10],
     [code |-> "FLAT100", discount_type |-> "fixed", discount_value |-> 100]}

\* lines 249-254
DiscountAmount(coupon, subtotal) ==
    IF coupon.discount_type = "percentage"
    THEN (subtotal * coupon.discount_value) \div 100
    ELSE IF coupon.discount_value < subtotal THEN coupon.discount_value
         ELSE subtotal

\* lines 256-259
CouponApplied(ord, coupon) ==
    LET discount == DiscountAmount(coupon, ord.subtotal)
        final == IF ord.subtotal - discount > 0 THEN ord.subtotal - discount ELSE 0
    IN [ord EXCEPT !.discount_amount = discount, !.coupon_code = coupon.code,
                   !.total_amount = final]

\* lines 233-240: per_user_limit is 1 (app/models/coupon.py, line 29)
CouponUsedBy(u, code) ==
    \E i \in DOMAIN orders :
        orders[i].user_id = u /\ orders[i].coupon_code = code

ApplyCouponToOrder(s, u, id, coupon) ==
    /\ NewSession(s)
    /\ started' = s
    /\ LET call == [Idle EXCEPT !.op = "apply_coupon", !.user = u, !.oid = id]
           end(code, tag) ==
               [call EXCEPT !.pc = "done",
                    !.resp = Response(code, tag, 0, << >>)]
       IN IF orders[id].user_id /= u
          THEN /\ sess' = [sess EXCEPT ![s] = end(404, "order_not_found")]
               /\ UNCHANGED orders
          ELSE IF orders[id].status /= "pending"
          THEN /\ sess' = [sess EXCEPT ![s] = end(400, "not_pending")]
               /\ UNCHANGED orders
          ELSE IF CouponUsedBy(u, coupon.code)
          THEN /\ sess' = [sess EXCEPT ![s] = end(400, "coupon_used")]
               /\ UNCHANGED orders
          ELSE IF orders[id].coupon_code /= "none"
          THEN /\ sess' = [sess EXCEPT ![s] = end(409, "already_applied")]
               /\ UNCHANGED orders
          ELSE /\ orders' = [orders EXCEPT ![id] = CouponApplied(orders[id], coupon)]
               /\ sess' = [sess EXCEPT ![s] = end(200, "coupon_applied")]
    /\ UNCHANGED <<stock, payments, cart, now, nextRef, vlock, plock, history>>

ApplyCouponStep(s) ==
    \E u \in Users, id \in DOMAIN orders, coupon \in Coupons :
        ApplyCouponToOrder(s, u, id, coupon)

NextPricing ==
    \E s \in Sessions :
        \/ CreateOrderStep(s)
        \/ LockVariant(s)
        \/ ApplyCouponStep(s)

SpecPricing == Init /\ [][NextPricing]_vars

RECURSIVE C26_ItemsTotal(_)
C26_ItemsTotal(items) ==
    IF items = << >> THEN 0
    ELSE TotalPrice(Head(items)) + C26_ItemsTotal(Tail(items))

(***************************************************************************)
(* C26.  For every order the subtotal is the sum of its items' total       *)
(* prices, the shipping charge is 0 when the subtotal is above the         *)
(* free-shipping threshold and the flat fee otherwise, and the total is    *)
(* subtotal + tax + shipping - discount.                                   *)
(* Refuted under SpecPricing: applying a coupon sets the total to          *)
(* subtotal - discount, without the tax and the shipping charge.           *)
(***************************************************************************)
C26_TotalsAddUp ==
    \A i \in DOMAIN orders :
        LET o == orders[i]
        IN /\ o.subtotal = C26_ItemsTotal(o.items)
           /\ o.shipping_charge =
                 (IF o.subtotal > FREE_SHIPPING_THRESHOLD THEN 0
                  ELSE DEFAULT_SHIPPING_CHARGE)
           /\ o.total_amount =
                 o.subtotal + o.tax_amount + o.shipping_charge - o.discount_amount

RECURSIVE C27_Reserved(_, _)
\* the quantity of variant v over the items of the orders whose stock is
\* deducted
C27_Reserved(os, v) ==
    IF os = << >> THEN 0
    ELSE (IF Head(os).stock_deducted THEN SumQty(Head(os).items, v) ELSE 0)
         + C27_Reserved(Tail(os), v)

(***************************************************************************)
(* C27.  For each variant, the stock plus the quantity of it over the      *)
(* orders whose stock_deducted is set is what it was at the start.         *)
(* Refuted under SpecReserved.                                             *)
(***************************************************************************)
C27_StockConserved ==
    \A v \in Variants :
        stock[v] + C27_Reserved(orders, v) = stock0[v] + C27_Reserved(orders0, v)

(***************************************************************************)
(* C28.  A cancelled order has stock_deducted clear.                       *)
(* Refuted under SpecFulfil: the admin status update sets an order to      *)
(* cancelled without returning its stock or clearing the flag.             *)
(***************************************************************************)
C28_CancelledHoldsNoStock ==
    \A i \in DOMAIN orders :
        orders[i].status = "cancelled" => ~orders[i].stock_deducted

(***************************************************************************)
(* Scenario: the sweep, one run after the other, on two orders of which    *)
(* the first may be confirmed and either may be from before the            *)
(* expires_at column existed (no expires_at: the created_at cutoff         *)
(* decides).                                                               *)
(***************************************************************************)
InitExpiry ==
    /\ stock = [v \in Variants |-> MaxStock]
    /\ \E st \in {"pending", "confirmed"}, d1 \in BOOLEAN,
          e1 \in {NoTime, 0, 1}, e2 \in {NoTime, 1} :
          orders = <<[AwaitingOrder(1, <<Row(1, 1)>>, d1, e1) EXCEPT !.status = st],
                     AwaitingOrder(2, <<Row(1, 1), Row(2, 1)>>, TRUE, e2)>>
    /\ payments = <<AwaitingPayment(1), AwaitingPayment(2)>>
    /\ plock = <<0, 0>>
    /\ cart = [u \in Users |-> << >>]
    /\ nextRef = 3
    /\ InitCommon

SpecExpiry == InitExpiry /\ [][NextSweep]_vars

RECURSIVE C29_Returned(_, _)
\* the quantity of variant v over the orders 1..n that the step changes and
\* that had their stock deducted
C29_Returned(n, v) ==
    IF n = 0 THEN 0
    ELSE C29_Returned(n - 1, v) +
         (IF orders'[n] /= orders[n] /\ orders[n].stock_deducted
          THEN SumQty(orders[n].items, v) ELSE 0)

InitCheckout ==
    /\ stock = [v \in Variants |-> MaxStock]
    /\ orders = <<AwaitingOrder(1, <<Row(1, 1)>>, TRUE, 1)>>
    /\ payments = <<NoPayment>>
    /\ plock = <<0>>
    /\ cart = [u \in Users |-> IF u = 2 THEN <<Row(1, 1)>> ELSE << >>]
    /\ nextRef = 1
    /\ InitCommon

NextCheckout ==
    \E s \in Sessions :
        \/ CreateOrderStep(s)
        \/ LockVariant(s)
        \/ CreatePaymentOrderStep(s)

SpecCheckout == InitCheckout /\ [][NextCheckout]_vars

\* the calls that have inserted a payments row for order id
C30_Inserts(id) == {s \in Sessions : sess[s].inserted = id}

(***************************************************************************)
(* C30.  After every step each order has at most one payments row: at     *)
(* most one call has inserted a row for it, and it has a payment exactly   *)
(* when one has.  create_payment_order goes on only for a pending order    *)
(* of its caller, and when it answers 200 for an order whose payment it    *)
(* had found, it has inserted nothing and the payment carries the new      *)
(* gateway order reference and is pending; when it had found none, the     *)
(* order had none and has the new pending razorpay payment.                *)
(***************************************************************************)
C30_OnePaymentPerOrder ==
    [][/\ \A id \in DOMAIN orders' :
             /\ Cardinality({s \in Sessions : sess'[s].inserted = id}) <= 1
             /\ (payments'[id] /= NoPayment)
                   <=> ({s \in Sessions : sess'[s].inserted = id} /= {})
       /\ \A s \in Sessions :
             (sess[s].pc = "idle" /\ sess'[s].pc = "cp_commit")
             => /\ orders[sess'[s].oid].status = "pending"
                /\ orders[sess'[s].oid].user_id = sess'[s].user
       /\ \A s \in Sessions :
             (sess[s].pc = "cp_commit" /\ sess'[s].resp.code = 200)
             => LET id == sess[s].oid
                IN /\ payments'[id].razorpay_order_id = sess[s].ref
                   /\ payments'[id].payment_status = "pending"
                   /\ IF sess[s].pay /= NoPayment
                      THEN /\ sess'[s].inserted = 0
                           /\ payments[id] /= NoPayment
                           /\ payments'[id].method = payments[id].method
                      ELSE /\ sess'[s].inserted = id
                           /\ payments[id] = NoPayment
                           /\ payments'[id].method = "razorpay"]_vars

C30_Witness ==
    /\ \E s1, s2 \in Sessions :
          /\ Done(s1) /\ Done(s2)
          /\ sess[s1].op = "create_payment_order"
          /\ sess[s2].op = "create_payment_order"
          /\ sess[s1].oid = 1 /\ sess[s2].oid = 1
          /\ C30_Inserts(1) = {s1}
          /\ sess[s2].resp.code = 200
          /\ payments[1].razorpay_order_id = sess[s2].ref
          /\ sess[s1].ref /= sess[s2].ref

=============================================================================
